---- MODULE Spec2Model ----
(***************************************************************************)
(* OthelloMini: the consent-tier gating engine (OthelloService), the       *)
(* suggestion lifecycle (Suggestion model and SuggestionRepository) and    *)
(* the chat orchestration flow (ChatService.process_message) and the user   *)
(* profile (ProfileRepository, ProfileService).                            *)
(*                                                                         *)
(* A text is a sequence of one-character strings, so that lower-casing,    *)
(* trimming and substring matching are computed as the code computes them. *)
(***************************************************************************)
EXTENDS Integers, Sequences, FiniteSets, TLC

VARIABLES
  g_in,      \* arguments of the gate_suggestion call under way
  g_out,     \* its outcome
  b_in,      \* arguments of the gate_suggestions call under way
  b_out,     \* its outcome
  store,     \* suggestions table: one record per row
  lastOp,    \* the last lifecycle operation on the table and its outcome
  chat,      \* the process_message turn under way and the tables it writes
  prof,      \* user_profiles table: the row of the one user
  p_op       \* the last profile operation and its outcome

vars == <<g_in, g_out, b_in, b_out, store, lastOp, chat, prof, p_op>>

-----------------------------------------------------------------------------
(* Bounds *)

MaxFrags == 3       \* a text is at most this many fragments long
MaxBatch == 3       \* entries in one gate_suggestions input list
MaxRows == 2        \* rows of the suggestions table
MaxOps == 4         \* lifecycle operations per behaviour
MaxRaw == 2
MaxProfileOps == 2         \* suggestions one LLM answer carries

-----------------------------------------------------------------------------
(* Python values *)

None == "<None>"                 \* Python's None
Truthy(v) == v # None /\ v # ""   \* truth value of an optional string

-----------------------------------------------------------------------------
(* str.lower() and str.strip() *)

UpperChars == <<"A","B","C","D","E","F","G","H","I","J","K","L","M",
                "N","O","P","Q","R","S","T","U","V","W","X","Y","Z">>
LowerChars == <<"a","b","c","d","e","f","g","h","i","j","k","l","m",
                "n","o","p","q","r","s","t","u","v","w","x","y","z">>

LowerChar(c) ==
  IF \E i \in 1..Len(UpperChars) : UpperChars[i] = c
  THEN LowerChars[CHOOSE i \in 1..Len(UpperChars) : UpperChars[i] = c]
  ELSE c

Lower(t) == [i \in 1..Len(t) |-> LowerChar(t[i])]

Whitespace == {" ", "\n", "\t"}

Strip(t) ==
  LET keep == {i \in 1..Len(t) : t[i] \notin Whitespace}
  IN IF keep = {} THEN <<>>
     ELSE LET lo == CHOOSE i \in keep : \A j \in keep : i <= j
              hi == CHOOSE i \in keep : \A j \in keep : j <= i
          IN SubSeq(t, lo, hi)

\* Python's `kw in text`
Contains(kw, t) ==
  \E i \in 0..(Len(t) - Len(kw)) : \A j \in 1..Len(kw) : t[i + j] = kw[j]

-----------------------------------------------------------------------------
(* CONSENT_TIER_HIERARCHY *)

TierNames == {"Passive", "Suggestive", "Active", "Autonomous"}

CONSENT_TIER_HIERARCHY ==
  [t \in TierNames |->
     CASE t = "Passive" -> 1
       [] t = "Suggestive" -> 2
       [] t = "Active" -> 3
       [] t = "Autonomous" -> 4]

\* mutation: an unknown name is given the lowest known level
get_tier_level_DefaultLowest(tier) ==
  IF tier \in DOMAIN CONSENT_TIER_HIERARCHY THEN CONSENT_TIER_HIERARCHY[tier] ELSE 1

\* dict.get(tier, 0)
get_tier_level(tier) ==
  IF tier \in DOMAIN CONSENT_TIER_HIERARCHY THEN CONSENT_TIER_HIERARCHY[tier] ELSE 0

-----------------------------------------------------------------------------
(* TIER_CLASSIFICATION_PATTERNS *)

\* Autonomous keywords: i've already, i have already, done for you, automatically, i went ahead, on your behalf, i've scheduled, i've sent, i've booked, i've ordered, executed, completed for you
KeywordsAutonomous ==
  << <<"i","'","v","e"," ","a","l","r","e","a","d","y">>,
     <<"i"," ","h","a","v","e"," ","a","l","r","e","a","d","y">>,
     <<"d","o","n","e"," ","f","o","r"," ","y","o","u">>,
     <<"a","u","t","o","m","a","t","i","c","a","l","l","y">>,
     <<"i"," ","w","e","n","t"," ","a","h","e","a","d">>,
     <<"o","n"," ","y","o","u","r"," ","b","e","h","a","l","f">>,
     <<"i","'","v","e"," ","s","c","h","e","d","u","l","e","d">>,
     <<"i","'","v","e"," ","s","e","n","t">>,
     <<"i","'","v","e"," ","b","o","o","k","e","d">>,
     <<"i","'","v","e"," ","o","r","d","e","r","e","d">>,
     <<"e","x","e","c","u","t","e","d">>,
     <<"c","o","m","p","l","e","t","e","d"," ","f","o","r"," ","y","o","u">> >>

\* Active keywords: i can, i'll, i will, let me, shall i, want me to, i could, would you like me to, i'm able to, allow me to, i'll handle, i'll set up, i'll arrange, i'll create, schedule for you, send for you, book for you
KeywordsActive ==
  << <<"i"," ","c","a","n">>,
     <<"i","'","l","l">>,
     <<"i"," ","w","i","l","l">>,
     <<"l","e","t"," ","m","e">>,
     <<"s","h","a","l","l"," ","i">>,
     <<"w","a","n","t"," ","m","e"," ","t","o">>,
     <<"i"," ","c","o","u","l","d">>,
     <<"w","o","u","l","d"," ","y","o","u"," ","l","i","k","e"," ","m","e"," ","t","o">>,
     <<"i","'","m"," ","a","b","l","e"," ","t","o">>,
     <<"a","l","l","o","w"," ","m","e"," ","t","o">>,
     <<"i","'","l","l"," ","h","a","n","d","l","e">>,
     <<"i","'","l","l"," ","s","e","t"," ","u","p">>,
     <<"i","'","l","l"," ","a","r","r","a","n","g","e">>,
     <<"i","'","l","l"," ","c","r","e","a","t","e">>,
     <<"s","c","h","e","d","u","l","e"," ","f","o","r"," ","y","o","u">>,
     <<"s","e","n","d"," ","f","o","r"," ","y","o","u">>,
     <<"b","o","o","k"," ","f","o","r"," ","y","o","u">> >>

\* Suggestive keywords: try, consider, you should, you could, you might want to, recommend, suggest, it would help to, a good approach, one strategy, you may want, it's worth, think about, have you tried, why not, how about, what if you, an option is, you can, a tip
KeywordsSuggestive ==
  << <<"t","r","y">>,
     <<"c","o","n","s","i","d","e","r">>,
     <<"y","o","u"," ","s","h","o","u","l","d">>,
     <<"y","o","u"," ","c","o","u","l","d">>,
     <<"y","o","u"," ","m","i","g","h","t"," ","w","a","n","t"," ","t","o">>,
     <<"r","e","c","o","m","m","e","n","d">>,
     <<"s","u","g","g","e","s","t">>,
     <<"i","t"," ","w","o","u","l","d"," ","h","e","l","p"," ","t","o">>,
     <<"a"," ","g","o","o","d"," ","a","p","p","r","o","a","c","h">>,
     <<"o","n","e"," ","s","t","r","a","t","e","g","y">>,
     <<"y","o","u"," ","m","a","y"," ","w","a","n","t">>,
     <<"i","t","'","s"," ","w","o","r","t","h">>,
     <<"t","h","i","n","k"," ","a","b","o","u","t">>,
     <<"h","a","v","e"," ","y","o","u"," ","t","r","i","e","d">>,
     <<"w","h","y"," ","n","o","t">>,
     <<"h","o","w"," ","a","b","o","u","t">>,
     <<"w","h","a","t"," ","i","f"," ","y","o","u">>,
     <<"a","n"," ","o","p","t","i","o","n"," ","i","s">>,
     <<"y","o","u"," ","c","a","n">>,
     <<"a"," ","t","i","p">> >>

\* Passive keywords: information, note that, keep in mind, be aware, for your reference, fyi, it's common, research shows, studies suggest, generally, typically, often, some people find, it's worth noting, interesting fact
KeywordsPassive ==
  << <<"i","n","f","o","r","m","a","t","i","o","n">>,
     <<"n","o","t","e"," ","t","h","a","t">>,
     <<"k","e","e","p"," ","i","n"," ","m","i","n","d">>,
     <<"b","e"," ","a","w","a","r","e">>,
     <<"f","o","r"," ","y","o","u","r"," ","r","e","f","e","r","e","n","c","e">>,
     <<"f","y","i">>,
     <<"i","t","'","s"," ","c","o","m","m","o","n">>,
     <<"r","e","s","e","a","r","c","h"," ","s","h","o","w","s">>,
     <<"s","t","u","d","i","e","s"," ","s","u","g","g","e","s","t">>,
     <<"g","e","n","e","r","a","l","l","y">>,
     <<"t","y","p","i","c","a","l","l","y">>,
     <<"o","f","t","e","n">>,
     <<"s","o","m","e"," ","p","e","o","p","l","e"," ","f","i","n","d">>,
     <<"i","t","'","s"," ","w","o","r","t","h"," ","n","o","t","i","n","g">>,
     <<"i","n","t","e","r","e","s","t","i","n","g"," ","f","a","c","t">> >>

TIER_CLASSIFICATION_PATTERNS ==
  [t \in TierNames |->
     CASE t = "Autonomous" -> KeywordsAutonomous
       [] t = "Active" -> KeywordsActive
       [] t = "Suggestive" -> KeywordsSuggestive
       [] t = "Passive" -> KeywordsPassive]

\* mutation: least intrusive tier first
ClassifyOrder_LeastFirst == <<"Passive", "Suggestive", "Active", "Autonomous">>

\* the order in which classify_suggestion_tier walks the tiers
ClassifyOrder == <<"Autonomous", "Active", "Suggestive", "Passive">>

\* the first keyword of the list, in list order, that occurs in the text; 0 if none
FirstMatch(kws, text_lower) ==
  IF \E i \in 1..Len(kws) : Contains(kws[i], text_lower)
  THEN CHOOSE i \in 1..Len(kws) :
         /\ Contains(kws[i], text_lower)
         /\ \A j \in 1..(i - 1) : ~Contains(kws[j], text_lower)
  ELSE 0

RECURSIVE ClassifyFrom(_, _)
ClassifyFrom(k, text_lower) ==
  IF k > Len(ClassifyOrder) THEN "Suggestive"
  ELSE IF FirstMatch(TIER_CLASSIFICATION_PATTERNS[ClassifyOrder[k]], text_lower) # 0
       THEN ClassifyOrder[k]
       ELSE ClassifyFrom(k + 1, text_lower)

\* mutation: no early return for an empty text
classify_suggestion_tier_NoEmptyCase(suggestion_text) ==
  ClassifyFrom(1, Strip(Lower(suggestion_text)))

classify_suggestion_tier(suggestion_text) ==
  LET text_lower == Strip(Lower(suggestion_text))
  IN IF text_lower = <<>> THEN "Passive" ELSE ClassifyFrom(1, text_lower)

-----------------------------------------------------------------------------
(* generate_ethical_reasoning: the template used and the keyword named *)

NoTrigger == "default heuristic"

\* mutation: the text is not lower-cased before the scan
generate_ethical_reasoning_NoLower(suggestion_text, assigned_tier) ==
  LET text == Strip(suggestion_text)
      m == IF assigned_tier \in DOMAIN TIER_CLASSIFICATION_PATTERNS
           THEN FirstMatch(TIER_CLASSIFICATION_PATTERNS[assigned_tier], text)
           ELSE 0
  IN [template |-> IF assigned_tier \in TierNames THEN assigned_tier ELSE "Suggestive",
      sentence |-> IF m # 0 THEN "classification trigger" ELSE NoTrigger,
      trigger |-> IF m # 0 THEN TIER_CLASSIFICATION_PATTERNS[assigned_tier][m]
                  ELSE NoTrigger]

generate_ethical_reasoning(suggestion_text, assigned_tier) ==
  LET template == IF assigned_tier \in TierNames THEN assigned_tier ELSE "Suggestive"
      text_lower == Strip(Lower(suggestion_text))
      m == IF assigned_tier \in DOMAIN TIER_CLASSIFICATION_PATTERNS
           THEN FirstMatch(TIER_CLASSIFICATION_PATTERNS[assigned_tier], text_lower)
           ELSE 0
  IN [template |-> template,
      sentence |-> IF m # 0 THEN "classification trigger" ELSE NoTrigger,
      trigger |-> IF m # 0 THEN TIER_CLASSIFICATION_PATTERNS[assigned_tier][m]
                  ELSE NoTrigger]

-----------------------------------------------------------------------------
(* is_tier_permitted *)

\* mutation: strict comparison
is_tier_permitted_Strict(suggestion_tier, user_consent_tier) ==
  get_tier_level(suggestion_tier) < get_tier_level(user_consent_tier)

is_tier_permitted(suggestion_tier, user_consent_tier) ==
  get_tier_level(suggestion_tier) <= get_tier_level(user_consent_tier)

-----------------------------------------------------------------------------
(* gate_suggestion *)

\* mutation: the hint is ignored
ResolveAssignedTier_IgnoreHint(suggestion_text, pre_assigned_tier) ==
  classify_suggestion_tier(suggestion_text)

\* lines 262-268: hint or classification, then coercion of an unknown name
ResolveAssignedTier(suggestion_text, pre_assigned_tier) ==
  LET t == IF Truthy(pre_assigned_tier) THEN pre_assigned_tier
           ELSE classify_suggestion_tier(suggestion_text)
  IN IF t \notin DOMAIN CONSENT_TIER_HIERARCHY THEN "Suggestive" ELSE t

\* mutation: the user tier is not coerced
ResolveUserTier_NoCoerce(user_consent_tier) == user_consent_tier

\* lines 271-272
ResolveUserTier(user_consent_tier) ==
  IF user_consent_tier \notin DOMAIN CONSENT_TIER_HIERARCHY THEN "Passive"
  ELSE user_consent_tier

\* the subscripts self._tier_hierarchy[...] of lines 292-293 and 301-302
GateRaises(suggestion_text, user_consent_tier, pre_assigned_tier) ==
  \/ ResolveAssignedTier(suggestion_text, pre_assigned_tier)
        \notin DOMAIN CONSENT_TIER_HIERARCHY
  \/ ResolveUserTier(user_consent_tier) \notin DOMAIN CONSENT_TIER_HIERARCHY

gate_suggestion(suggestion_text, user_consent_tier, pre_assigned_tier) ==
  LET assigned_tier == ResolveAssignedTier(suggestion_text, pre_assigned_tier)
      user_tier == ResolveUserTier(user_consent_tier)
      is_permitted == is_tier_permitted(assigned_tier, user_tier)
  IN [suggestion_text |-> suggestion_text,
      assigned_tier |-> assigned_tier,
      ethical_reasoning |-> generate_ethical_reasoning(suggestion_text, assigned_tier),
      is_permitted |-> is_permitted,
      user_consent_tier |-> user_tier,
      filter_reasoning |->
        [template |-> IF is_permitted THEN "approved" ELSE "blocked",
         tier |-> assigned_tier,
         level |-> get_tier_level(assigned_tier),
         user_tier |-> user_tier,
         user_level |-> get_tier_level(user_tier)]]

-----------------------------------------------------------------------------
(* gate_suggestions: a suggestion is a dict, here a function on its keys *)

\* dict.get(key, default)
Get(d, key, default) == IF key \in DOMAIN d THEN d[key] ELSE default

\* {}
EmptyDict == [k \in {} |-> 0]

\* lines 335-339: entries with an empty or missing text are skipped
EntryKept(suggestion) == Get(suggestion, "suggestion_text", <<>>) # <<>>

\* mutation: whitespace-only texts are skipped too
EntryKept_Trimmed(suggestion) == Strip(Get(suggestion, "suggestion_text", <<>>)) # <<>>

\* mutation: caller keys overwrite the gate's fields
GateEntry_Overwrite(suggestion, user_consent_tier) ==
  LET gated == gate_suggestion(Get(suggestion, "suggestion_text", <<>>),
                               user_consent_tier,
                               Get(suggestion, "consent_tier", None))
  IN [k \in DOMAIN gated \cup DOMAIN suggestion |->
        IF k \in DOMAIN suggestion THEN suggestion[k] ELSE gated[k]]

\* mutation: only the tier hint is carried over
GateEntry_DropExtras(suggestion, user_consent_tier) ==
  LET gated == gate_suggestion(Get(suggestion, "suggestion_text", <<>>),
                               user_consent_tier,
                               Get(suggestion, "consent_tier", None))
  IN [k \in DOMAIN gated \cup (DOMAIN suggestion \cap {"consent_tier"}) |->
        IF k \in DOMAIN gated THEN gated[k] ELSE suggestion[k]]

\* lines 341-350: gate one entry, then copy the keys the gated record lacks
GateEntry(suggestion, user_consent_tier) ==
  LET gated == gate_suggestion(Get(suggestion, "suggestion_text", <<>>),
                               user_consent_tier,
                               Get(suggestion, "consent_tier", None))
  IN [k \in DOMAIN gated \cup DOMAIN suggestion |->
        IF k \in DOMAIN gated THEN gated[k] ELSE suggestion[k]]

RECURSIVE GateLoop(_, _, _)
GateLoop(suggestions, i, user_consent_tier) ==
  IF i > Len(suggestions) THEN <<>>
  ELSE IF ~EntryKept(suggestions[i])
       THEN GateLoop(suggestions, i + 1, user_consent_tier)
       ELSE <<GateEntry(suggestions[i], user_consent_tier)>>
              \o GateLoop(suggestions, i + 1, user_consent_tier)

\* mutation: results are prepended, so the output is in reverse order
RECURSIVE GateLoopReversed(_, _, _)
GateLoopReversed(suggestions, i, user_consent_tier) ==
  IF i > Len(suggestions) THEN <<>>
  ELSE IF ~EntryKept(suggestions[i])
       THEN GateLoopReversed(suggestions, i + 1, user_consent_tier)
       ELSE GateLoopReversed(suggestions, i + 1, user_consent_tier)
              \o <<GateEntry(suggestions[i], user_consent_tier)>>

gate_suggestions_Reversed(suggestions, user_consent_tier) ==
  GateLoopReversed(suggestions, 1, user_consent_tier)

gate_suggestions(suggestions, user_consent_tier) ==
  GateLoop(suggestions, 1, user_consent_tier)

\* gate_suggestions raises when a gate_suggestion call in its loop does
BatchRaises(suggestions, user_consent_tier) ==
  \E i \in 1..Len(suggestions) :
    /\ EntryKept(suggestions[i])
    /\ GateRaises(Get(suggestions[i], "suggestion_text", <<>>),
                  user_consent_tier,
                  Get(suggestions[i], "consent_tier", None))

\* filter_permitted_suggestions
filter_permitted_suggestions(suggestions, user_consent_tier) ==
  SelectSeq(gate_suggestions(suggestions, user_consent_tier),
            LAMBDA s : Get(s, "is_permitted", FALSE))

-----------------------------------------------------------------------------
(* Inputs of the gate *)

Fragments ==
  { <<" ">>,
    <<"z">>,
    <<"I","'","v","e"," ","s","e","n","t">>,
    <<"I"," ","C","A","N">>,
    <<"t","r","y">>,
    <<"F","Y","I">> }

RECURSIVE TextsUpTo(_)
TextsUpTo(n) ==
  IF n = 0 THEN {<<>>}
  ELSE LET shorter == TextsUpTo(n - 1)
       IN shorter \cup {t \o f : t \in shorter, f \in Fragments}

Texts == TextsUpTo(MaxFrags)

UserTierInputs == TierNames \cup {None, "", "Bogus", "passive"}
HintInputs == TierNames \cup {None, "", "Bogus", "active"}

NoResult == [kind |-> "none"]

-----------------------------------------------------------------------------
(* Idle values of the parts a specification does not exercise *)

IdleGate == g_in = [text |-> <<>>, user |-> "Passive", hint |-> None] /\ g_out = NoResult
IdleBatch == b_in = [suggestions |-> <<>>, user |-> "Passive"] /\ b_out = NoResult
IdleStore == store = <<>> /\ lastOp = [op |-> "none", clock |-> 0]
IdleChat == chat = [pc |-> "idle"]
IdleProfile == prof = [exists |-> FALSE] /\ p_op = [op |-> "none", n |-> 0]

-----------------------------------------------------------------------------
(* SpecGate: one call of gate_suggestion on every input *)

InitGate ==
  /\ g_in \in [text : Texts, user : UserTierInputs, hint : HintInputs]
  /\ g_out = NoResult
  /\ IdleBatch /\ IdleStore /\ IdleChat /\ IdleProfile

GateOne ==
  /\ g_out = NoResult
  /\ g_out' = IF GateRaises(g_in.text, g_in.user, g_in.hint)
              THEN [kind |-> "KeyError"]
              ELSE [kind |-> "ok",
                    rec |-> gate_suggestion(g_in.text, g_in.user, g_in.hint),
                    classified |-> classify_suggestion_tier(g_in.text)]
  /\ UNCHANGED <<g_in, b_in, b_out, store, lastOp, chat, prof, p_op>>

\* get_tier_level on the user tier or on the hint of the input at hand
GetTierLevel ==
  /\ g_out = NoResult
  /\ \E tier \in {g_in.user, g_in.hint} :
       g_out' = [kind |-> "level", tier |-> tier, level |-> get_tier_level(tier)]
  /\ UNCHANGED <<g_in, b_in, b_out, store, lastOp, chat, prof, p_op>>

\* the same text, user tier and hint as a one-entry list through gate_suggestions
GateOneInBatch ==
  /\ g_out.kind \in {"ok", "KeyError"}
  /\ b_out = NoResult
  /\ LET entry == [suggestion_text |-> g_in.text, consent_tier |-> g_in.hint]
     IN /\ b_in' = [suggestions |-> <<entry>>, user |-> g_in.user]
        /\ b_out' = IF BatchRaises(<<entry>>, g_in.user)
                    THEN [kind |-> "KeyError"]
                    ELSE [kind |-> "ok", list |-> gate_suggestions(<<entry>>, g_in.user)]
  /\ UNCHANGED <<g_in, g_out, store, lastOp, chat, prof, p_op>>

\* mutation: both names are normalized before the comparison
IsTierPermitted_Normalized ==
  /\ g_out = NoResult
  /\ g_out' = [kind |-> "permitted", suggestion_tier |-> g_in.hint,
               user |-> g_in.user,
               permitted |-> is_tier_permitted(ResolveAssignedTier(<<>>, g_in.hint),
                                               ResolveUserTier(g_in.user))]
  /\ UNCHANGED <<g_in, b_in, b_out, store, lastOp, chat, prof, p_op>>

\* is_tier_permitted called directly, the hint of the input at hand as the
\* suggestion tier, on names nobody normalized
IsTierPermitted ==
  /\ g_out = NoResult
  /\ g_out' = [kind |-> "permitted", suggestion_tier |-> g_in.hint,
               user |-> g_in.user,
               permitted |-> is_tier_permitted(g_in.hint, g_in.user)]
  /\ UNCHANGED <<g_in, b_in, b_out, store, lastOp, chat, prof, p_op>>

NextGate == GateOne \/ GetTierLevel \/ GateOneInBatch \/ IsTierPermitted

SpecGate == InitGate /\ [][NextGate]_vars

-----------------------------------------------------------------------------
(* SpecBatch: one call of gate_suggestions on every input list *)

T_try == <<"t","r","y">>
T_sent == <<"I","'","v","e"," ","s","e","n","t">>
T_blank == <<" ">>

\* the text of an entry: key missing, empty, whitespace-only, or a sentence
EntryTexts ==
  { [k \in {} |-> None],
    [suggestion_text |-> <<>>],
    [suggestion_text |-> T_blank],
    [suggestion_text |-> T_try],
    [suggestion_text |-> T_sent] }

\* the rest of an entry: nothing, a tier hint with caller metadata, an unknown
\* hint, or caller keys named like the gated record's own fields
EntryRest ==
  { [k \in {} |-> None],
    [consent_tier |-> "Passive", ai_reasoning |-> "because", note |-> 7],
    [consent_tier |-> "Bogus"],
    [is_permitted |-> TRUE, assigned_tier |-> "Passive", note |-> 8] }

Merge(d, e) == [k \in DOMAIN d \cup DOMAIN e |-> IF k \in DOMAIN d THEN d[k] ELSE e[k]]

EntryPool == {Merge(t, r) : t \in EntryTexts, r \in EntryRest}

RECURSIVE ListsUpTo(_, _)
ListsUpTo(S, n) ==
  IF n = 0 THEN {<<>>}
  ELSE LET shorter == ListsUpTo(S, n - 1)
       IN shorter \cup {Append(l, e) : l \in shorter, e \in S}

BatchUserTiers == {"Passive", "Active", "Bogus"}

InitBatch ==
  /\ b_in \in [suggestions : ListsUpTo(EntryPool, MaxBatch), user : BatchUserTiers]
  /\ b_out = NoResult
  /\ IdleGate /\ IdleStore /\ IdleChat /\ IdleProfile

GateBatch ==
  /\ b_out = NoResult
  /\ b_out' = IF BatchRaises(b_in.suggestions, b_in.user)
              THEN [kind |-> "KeyError"]
              ELSE [kind |-> "ok",
                    list |-> gate_suggestions(b_in.suggestions, b_in.user)]
  /\ UNCHANGED <<g_in, g_out, b_in, store, lastOp, chat, prof, p_op>>

NextBatch == GateBatch

SpecBatch == InitBatch /\ [][NextBatch]_vars

-----------------------------------------------------------------------------
(* The suggestions table, Suggestion's methods and SuggestionRepository *)

VALID_STATUSES == {"pending", "approved", "denied", "expired"}

\* the mapped columns of class Suggestion
SuggestionColumns ==
  {"id", "user_profile_id", "conversation_id", "suggestion_text", "consent_tier",
   "ethical_reasoning", "status", "action_type", "action_payload", "user_response",
   "responded_at", "created_at", "updated_at"}

\* a row, reduced to the columns the lifecycle reads and writes
NewRow(status, now) ==
  [status |-> status, user_response |-> None, responded_at |-> None,
   created_at |-> now, updated_at |-> now]

\* BaseRepository.get_by_id finds a row (it returns None otherwise)
RowFound(rows, id) == id \in 1..Len(rows)

\* BaseRepository.update_by_id: UPDATE ... WHERE id = :id with the given values;
\* a value for a name that is not a mapped column makes the statement fail to
\* compile ("Unconsumed column names") and nothing is written
update_by_id(rows, id, data) ==
  IF DOMAIN data = {} THEN [raised |-> FALSE, rows |-> rows]
  ELSE IF ~(DOMAIN data \subseteq SuggestionColumns)
       THEN [raised |-> TRUE, rows |-> rows]
       ELSE [raised |-> FALSE,
             rows |-> [i \in 1..Len(rows) |->
                         IF i = id
                         THEN [c \in DOMAIN rows[i] |->
                                 IF c \in DOMAIN data THEN data[c] ELSE rows[i][c]]
                         ELSE rows[i]]]

\* mutation: approve() without the status guard
ModelApproveRow_Unguarded(row, feedback, now) ==
  [row |-> [row EXCEPT !.status = "approved", !.user_response = feedback,
                       !.responded_at = now, !.updated_at = now],
   outcome |-> "ok", named |-> None]

\* Suggestion.approve
ModelApproveRow(row, feedback, now) ==
  IF row.status # "pending"
  THEN [row |-> row, outcome |-> "ValueError", named |-> row.status]
  ELSE [row |-> [row EXCEPT !.status = "approved", !.user_response = feedback,
                            !.responded_at = now, !.updated_at = now],
        outcome |-> "ok", named |-> None]

\* Suggestion.deny
ModelDenyRow(row, reason, now) ==
  IF row.status # "pending"
  THEN [row |-> row, outcome |-> "ValueError", named |-> row.status]
  ELSE [row |-> [row EXCEPT !.status = "denied", !.user_response = reason,
                            !.responded_at = now, !.updated_at = now],
        outcome |-> "ok", named |-> None]

\* Suggestion.expire
ModelExpireRow(row, now) ==
  IF row.status # "pending"
  THEN [row |-> row, outcome |-> "ValueError", named |-> row.status]
  ELSE [row |-> [row EXCEPT !.status = "expired", !.updated_at = now],
        outcome |-> "ok", named |-> None]

\* SuggestionRepository.approve and deny: the values they hand to update_by_id
RepoResolveData(status, now) ==
  [status |-> status, resolved_at |-> now, updated_at |-> now]

\* SuggestionRepository.update_status: the values it hands to update_by_id
UpdateStatusData(status, now) ==
  IF status \in {"approved", "denied"}
  THEN [status |-> status, updated_at |-> now, resolved_at |-> now]
  ELSE [status |-> status, updated_at |-> now]

\* SuggestionRepository.approve (target "approved") and deny (target "denied")
RepoResolve(rows, id, target, now) ==
  IF ~RowFound(rows, id)
  THEN [rows |-> rows, outcome |-> "returned None", named |-> None]
  ELSE IF rows[id].status # "pending"
       THEN [rows |-> rows, outcome |-> "returned row", named |-> None]
       ELSE LET u == update_by_id(rows, id, RepoResolveData(target, now))
            IN IF u.raised
               THEN [rows |-> rows, outcome |-> "CompileError", named |-> None]
               ELSE [rows |-> u.rows, outcome |-> "returned row", named |-> None]

\* SuggestionRepository.update_status
RepoUpdateStatus(rows, id, status, now) ==
  LET u == update_by_id(rows, id, UpdateStatusData(status, now))
  IN IF u.raised
     THEN [rows |-> rows, outcome |-> "CompileError", named |-> None]
     ELSE [rows |-> u.rows,
           outcome |-> IF RowFound(u.rows, id)
                       THEN "returned row" ELSE "returned None",
           named |-> None]

-----------------------------------------------------------------------------
(* SpecStore: any sequence of lifecycle operations on the table *)

Feedbacks == {None, "fine"}

InitStore ==
  /\ store = <<>>
  /\ lastOp = [op |-> "none", clock |-> 0]
  /\ IdleGate /\ IdleBatch /\ IdleChat /\ IdleProfile

OpsLeft == lastOp.clock < MaxOps
Now == lastOp.clock + 1
RowIds == 1..Len(store)

Done(op, id, r, rows) ==
  /\ store' = rows
  /\ lastOp' = [op |-> op, id |-> id, outcome |-> r.outcome, named |-> r.named,
                before |-> store, clock |-> Now]
  /\ UNCHANGED <<g_in, g_out, b_in, b_out, chat, prof, p_op>>

\* SuggestionRepository.create_suggestion, status defaulted or given as pending
CreateSuggestion ==
  /\ OpsLeft /\ Len(store) < MaxRows
  /\ Done("create", Len(store) + 1, [outcome |-> "ok", named |-> None],
          Append(store, NewRow("pending", Now)))

ModelApprove ==
  /\ OpsLeft
  /\ \E id \in RowIds, feedback \in Feedbacks :
       LET r == ModelApproveRow(store[id], feedback, Now)
       IN Done("approve", id, r, [store EXCEPT ![id] = r.row])

ModelDeny ==
  /\ OpsLeft
  /\ \E id \in RowIds, reason \in Feedbacks :
       LET r == ModelDenyRow(store[id], reason, Now)
       IN Done("deny", id, r, [store EXCEPT ![id] = r.row])

ModelExpire ==
  /\ OpsLeft
  /\ \E id \in RowIds :
       LET r == ModelExpireRow(store[id], Now)
       IN Done("expire", id, r, [store EXCEPT ![id] = r.row])

RepoApprove ==
  /\ OpsLeft
  /\ \E id \in 1..MaxRows :
       LET r == RepoResolve(store, id, "approved", Now)
       IN Done("repo.approve", id, r, r.rows)

RepoDeny ==
  /\ OpsLeft
  /\ \E id \in 1..MaxRows :
       LET r == RepoResolve(store, id, "denied", Now)
       IN Done("repo.deny", id, r, r.rows)

UpdateStatus ==
  /\ OpsLeft
  /\ \E id \in 1..MaxRows, status \in VALID_STATUSES :
       LET r == RepoUpdateStatus(store, id, status, Now)
       IN Done("repo.update_status", id, r, r.rows)

NextStore ==
  \/ CreateSuggestion
  \/ ModelApprove \/ ModelDeny \/ ModelExpire
  \/ RepoApprove \/ RepoDeny
  \/ UpdateStatus

SpecStore == InitStore /\ [][NextStore]_vars

-----------------------------------------------------------------------------
(* AIService: what reaches process_message from an LLM answer *)

\* str.strip() on the short reasoning strings used here
StripReason(r) == IF r = " " THEN "" ELSE r

\* AIService._validate_suggestion accepts the item (it returns None otherwise)
SuggestionValid(item) == item.action # <<>>

\* AIService._validate_suggestion on an accepted item
validate_suggestion(item) ==
  [action |-> Strip(item.action),
   reasoning |-> IF Truthy(item.reasoning) THEN StripReason(item.reasoning)
                 ELSE "No reasoning provided.",
   consent_tier |-> IF item.consent_tier \notin TierNames THEN "Suggestive"
                    ELSE item.consent_tier]

\* the list comprehension of _parse_response and extract_suggestions
ValidatedList(items) ==
  LET kept == SelectSeq(items, SuggestionValid)
  IN [i \in 1..Len(kept) |-> validate_suggestion(kept[i])]

-----------------------------------------------------------------------------
(* ChatService helpers *)

\* ChatService._gate_suggestions
ChatGate(raw_suggestions, consent_tier) ==
  IF raw_suggestions = <<>> THEN <<>>
  ELSE LET othello_input ==
             [i \in 1..Len(raw_suggestions) |->
                [suggestion_text |-> raw_suggestions[i].action,
                 consent_tier |-> raw_suggestions[i].consent_tier,
                 ai_reasoning |-> raw_suggestions[i].reasoning]]
           gated == gate_suggestions(othello_input, consent_tier)
       IN [i \in 1..Len(gated) |->
             IF i <= Len(raw_suggestions) /\ Truthy(raw_suggestions[i].reasoning)
             THEN [gated[i] EXCEPT !["ai_reasoning"] = raw_suggestions[i].reasoning]
             ELSE gated[i]]

\* mutation: the filter keeps every gated suggestion
PermittedOf_All(gated) == gated

\* process_message lines 197-199
PermittedOf(gated) == SelectSeq(gated, LAMBDA g : Get(g, "is_permitted", FALSE))

\* the record _persist_suggestions hands to create_suggestion
SuggestionRow(suggestion, conversation_id) ==
  LET ethical == Get(suggestion, "ethical_reasoning", "")
      ai == Get(suggestion, "ai_reasoning", "")
  IN [conversation_id |-> conversation_id,
      suggestion_text |-> suggestion["suggestion_text"],
      consent_tier |-> Get(suggestion, "assigned_tier", "Suggestive"),
      ethical_reasoning |-> IF Truthy(ai) THEN [ai |-> ai, ethical |-> ethical]
                            ELSE [ai |-> None, ethical |-> ethical],
      status |-> "pending"]

\* ChatService._persist_suggestions: the rows written, given the positions at
\* which create_suggestion raises (those suggestions are logged and skipped)
PersistedRows(permitted, conversation_id, failing) ==
  LET idx == SelectSeq([i \in 1..Len(permitted) |-> i],
                       LAMBDA i : /\ Get(permitted[i], "suggestion_text", <<>>) # <<>>
                                  /\ i \notin failing)
  IN [n \in 1..Len(idx) |-> SuggestionRow(permitted[idx[n]], conversation_id)]

\* ConversationRepository.create_message: Conversation(**data) is built with
\* the keyword `metadata`, which is not the mapped attribute (the JSON column
\* is the attribute metadata_), so the row keeps the column default
create_message(role, metadata) == [role |-> role, metadata_ |-> EmptyDict]

\* ChatService._format_suggestions_for_response
FormatForResponse(persisted) ==
  [n \in 1..Len(persisted) |->
     [text |-> persisted[n].suggestion_text,
      consent_tier |-> persisted[n].consent_tier,
      reasoning |-> persisted[n].ethical_reasoning,
      status |-> persisted[n].status]]

-----------------------------------------------------------------------------
(* SpecChat: one turn of ChatService.process_message *)

T_can == <<"I"," ","C","A","N">>

\* suggestion items as the LLM may write them
LLMItems ==
  { [action |-> T_sent, reasoning |-> "r-sent", consent_tier |-> "Passive"],
    [action |-> T_sent, reasoning |-> None, consent_tier |-> "Autonomous"],
    [action |-> T_try, reasoning |-> " ", consent_tier |-> "Bogus"],
    [action |-> T_blank, reasoning |-> "r-blank", consent_tier |-> "Active"],
    [action |-> <<>>, reasoning |-> "r-empty", consent_tier |-> "Passive"],
    [action |-> T_can, reasoning |-> "r-can", consent_tier |-> "Active"] }

LLMAnswers == ListsUpTo(LLMItems, MaxRaw)

\* stop_after_attempt(3)
MaxAttempts == 3

NoProfile == [exists |-> FALSE, consent_tier |-> None, profile_version |-> 0,
              interactions |-> 0]

\* get_or_create_default's default_data
DefaultProfile == [exists |-> TRUE, consent_tier |-> "Suggestive",
                   profile_version |-> 1, interactions |-> 0]

InitialProfiles ==
  {NoProfile} \cup
  {[exists |-> TRUE, consent_tier |-> t, profile_version |-> 1, interactions |-> 0] :
     t \in TierNames}

\* a turn about to start for a user whose stored profile is p
NewTurn(p) ==
  [pc |-> "start",
   profile |-> p, messages |-> <<>>, rows |-> <<>>,
   committed |-> [profile |-> p, messages |-> <<>>, rows |-> <<>>],
   consent_tier |-> None, history |-> "none", attempts |-> 0,
   llm_errors |-> <<>>, waits |-> <<>>, primary_count |-> -1,
   raw_suggestions |-> <<>>, fallback |-> "not called",
   gated |-> <<>>, permitted |-> <<>>, persisted |-> <<>>,
   assistant_metadata |-> EmptyDict,
   result |-> [kind |-> "none"]]

InitChat ==
  /\ \E p \in InitialProfiles : chat = NewTurn(p)
  /\ IdleGate /\ IdleBatch /\ IdleStore /\ IdleProfile

ChatStep(c) == chat' = c /\ UNCHANGED <<g_in, g_out, b_in, b_out, store, lastOp, prof, p_op>>

\* the exception leaves process_message; get_chat_service rolls the session back
Raise(c, error) ==
  [c EXCEPT !.pc = "failed",
            !.profile = c.committed.profile,
            !.messages = c.committed.messages,
            !.rows = c.committed.rows,
            !.result = [kind |-> "raised", error |-> error]]

\* get_or_create_default
ResolvedProfile(p) == IF p.exists THEN p ELSE DefaultProfile

\* Step 1 with a UserProfile of models/user_profile.py: _profile_to_dict reads
\* profile.psychological_traits, an attribute that class does not define
Step1_ProfileDictRaises ==
  /\ chat.pc = "start"
  /\ ChatStep(Raise([chat EXCEPT !.profile = ResolvedProfile(chat.profile)],
                    "AttributeError"))

\* Step 1 with a profile object that carries the attributes _profile_to_dict reads
Step1_ProfileLoaded ==
  /\ chat.pc = "start"
  /\ LET p == ResolvedProfile(chat.profile)
     IN ChatStep([chat EXCEPT !.profile = p,
                              !.consent_tier = p.consent_tier,
                              !.pc = "history"])

\* mutation: the user message is written before the LLM is called
Step2_History_SavesUser ==
  /\ chat.pc = "history"
  /\ \E h \in {"fetched", "empty after error"} :
       ChatStep([chat EXCEPT !.history = h,
                             !.messages = Append(@, create_message("user", EmptyDict)),
                             !.pc = "llm"])

\* Step 2: _get_conversation_history returns the history, or [] when the read fails
Step2_History ==
  /\ chat.pc = "history"
  /\ \E h \in {"fetched", "empty after error"} :
       ChatStep([chat EXCEPT !.history = h, !.pc = "llm"])

\* mutation: the fallback is tried whenever the primary call gave no suggestion
AfterPrimary_IgnoreTier(raw) ==
  IF raw = <<>> THEN "fallback" ELSE "save user"

\* line 165: the next step once generate_response returned
AfterPrimary(raw) ==
  IF raw = <<>> /\ chat.consent_tier # "Passive" THEN "fallback" ELSE "save user"

\* Step 3: an attempt of generate_response returns
Step3_Returns ==
  /\ chat.pc = "llm"
  /\ \E answer \in LLMAnswers :
       LET raw == ValidatedList(answer)
       IN ChatStep([chat EXCEPT !.attempts = @ + 1,
                                !.raw_suggestions = raw,
                                !.primary_count = Len(raw),
                                !.pc = AfterPrimary(raw)])

\* wait=wait_exponential(multiplier=1, min=1, max=10): the seconds slept after
\* the attempt numbered attempt_number
wait_exponential(attempt_number) ==
  LET exp == 2 ^ (attempt_number - 1)
      capped == IF exp < 10 THEN exp ELSE 10
  IN IF capped > 1 THEN capped ELSE 1

\* mutation: no retry, the first transient error leaves generate_response
Step3_TransientError_NoRetry ==
  /\ chat.pc = "llm"
  /\ ChatStep(Raise([chat EXCEPT !.attempts = @ + 1,
                                 !.llm_errors = Append(@, "transient")],
                    "transient"))

\* Step 3: an attempt fails with one of RETRYABLE_EXCEPTIONS
Step3_TransientError ==
  /\ chat.pc = "llm"
  /\ IF chat.attempts + 1 < MaxAttempts
     THEN ChatStep([chat EXCEPT !.attempts = @ + 1,
                                !.llm_errors = Append(@, "transient"),
                                !.waits = Append(@, wait_exponential(chat.attempts + 1))])
     ELSE ChatStep(Raise([chat EXCEPT !.attempts = @ + 1,
                                      !.llm_errors = Append(@, "transient")],
                         "transient"))

\* Step 3: an attempt fails with any other exception
Step3_FatalError ==
  /\ chat.pc = "llm"
  /\ ChatStep(Raise([chat EXCEPT !.attempts = @ + 1,
                                 !.llm_errors = Append(@, "non-transient")],
                    "non-transient"))

\* Step 3b: extract_suggestions returns
Step3b_FallbackReturns ==
  /\ chat.pc = "fallback"
  /\ \E answer \in LLMAnswers :
       LET raw == ValidatedList(answer)
       IN ChatStep([chat EXCEPT !.fallback = "returned",
                                !.raw_suggestions = raw,
                                !.pc = "save user"])

\* mutation: the error of extract_suggestions is not caught
Step3b_FallbackRaises_Propagates ==
  /\ chat.pc = "fallback"
  /\ ChatStep(Raise([chat EXCEPT !.fallback = "raised"], "fallback"))

\* Step 3b: extract_suggestions raises; the error is logged and [] is used
Step3b_FallbackRaises ==
  /\ chat.pc = "fallback"
  /\ ChatStep([chat EXCEPT !.fallback = "raised",
                           !.raw_suggestions = <<>>,
                           !.pc = "save user"])

\* Steps 4-5: the raw suggestions are gated and filtered, then the user
\* message is written
Step4_GateAndSaveUser ==
  /\ chat.pc = "save user"
  /\ LET gated == ChatGate(chat.raw_suggestions, chat.consent_tier)
     IN ChatStep([chat EXCEPT !.gated = gated,
                              !.permitted = PermittedOf(gated),
                              !.messages = Append(@, create_message("user", EmptyDict)),
                              !.pc = "save assistant"])

\* lines 226-231: the audit counts of the assistant message
assistant_metadata(c) ==
  [suggestion_count |-> Len(c.permitted),
   total_suggestions_generated |-> Len(c.raw_suggestions),
   suggestions_blocked |-> Len(c.gated) - Len(c.permitted)]

\* mutation: create_message commits the assistant message on its own
Step5_AssistantSaved_Committed ==
  /\ chat.pc = "save assistant"
  /\ LET m == Append(chat.messages, create_message("assistant", assistant_metadata(chat)))
     IN ChatStep([chat EXCEPT !.messages = m,
                              !.assistant_metadata = assistant_metadata(chat),
                              !.committed = [@ EXCEPT !.messages = m],
                              !.pc = "save suggestions"])

\* Step 5: the assistant message is written, tagged with the audit counts
Step5_AssistantSaved ==
  /\ chat.pc = "save assistant"
  /\ ChatStep([chat EXCEPT
       !.messages = Append(@, create_message("assistant", assistant_metadata(chat))),
       !.assistant_metadata = assistant_metadata(chat),
       !.pc = "save suggestions"])

\* Step 5: create_message raises
Step5_SaveRaises ==
  /\ chat.pc \in {"save user", "save assistant"}
  /\ ChatStep(Raise(chat, "store"))

\* Step 5b: _persist_suggestions
Step5b_PersistSuggestions ==
  /\ chat.pc = "save suggestions"
  /\ \E failing \in SUBSET (1..Len(chat.permitted)) :
       LET new == PersistedRows(chat.permitted, Len(chat.messages), failing)
       IN ChatStep([chat EXCEPT !.rows = @ \o new,
                                !.persisted = new,
                                !.pc = "update profile"])

\* Step 7: process_message returns its result
Return(c, profile_updated) ==
  [c EXCEPT !.pc = "returned",
            !.result = [kind |-> "returned",
                        suggestions |-> FormatForResponse(c.persisted),
                        profile_updated |-> profile_updated]]

\* Steps 6-7 with the ProfileRepository of repositories/profile_repository.py,
\* which has no method `update`, or with a store that fails: the error is
\* logged, profile_updated is False
Step6_UpdateRaises ==
  /\ chat.pc = "update profile"
  /\ ChatStep(Return(chat, FALSE))

\* the newest interactions the log keeps
InteractionWindow == 100

\* Steps 6-7 with a profile store whose update merges the fields and
\* increments the version
Step6_ProfileUpdated ==
  /\ chat.pc = "update profile"
  /\ LET n == chat.profile.interactions + 1
         p == [chat.profile EXCEPT
                 !.interactions = IF n > InteractionWindow THEN InteractionWindow ELSE n,
                 !.profile_version = @ + 1]
     IN ChatStep(Return([chat EXCEPT !.profile = p], TRUE))

\* get_chat_service after the handler returned: the session commits
SessionCommit ==
  /\ chat.pc = "returned"
  /\ ChatStep([chat EXCEPT !.pc = "done",
                           !.committed = [profile |-> chat.profile,
                                          messages |-> chat.messages,
                                          rows |-> chat.rows]])

\* get_chat_service: the commit raises, the session is rolled back
SessionCommitRaises ==
  /\ chat.pc = "returned"
  /\ ChatStep(Raise(chat, "commit"))

NextChat ==
  \/ Step1_ProfileDictRaises \/ Step1_ProfileLoaded
  \/ Step2_History
  \/ Step3_Returns \/ Step3_TransientError \/ Step3_FatalError
  \/ Step3b_FallbackReturns \/ Step3b_FallbackRaises
  \/ Step4_GateAndSaveUser \/ Step5_AssistantSaved \/ Step5_SaveRaises
  \/ Step5b_PersistSuggestions
  \/ Step6_UpdateRaises \/ Step6_ProfileUpdated
  \/ SessionCommit \/ SessionCommitRaises

SpecChat == InitChat /\ [][NextChat]_vars

-----------------------------------------------------------------------------
(* UserProfile, ProfileRepository and ProfileService *)

\* profile_service.py: valid consent tiers in order of increasing autonomy
CONSENT_TIERS == <<"Passive", "Suggestive", "Active", "Autonomous">>

InTiers(t) == \E i \in 1..Len(CONSENT_TIERS) : CONSENT_TIERS[i] = t

\* no row for the user
AbsentRow == [exists |-> FALSE]

\* the column defaults of UserProfile
ColumnDefaults ==
  [exists |-> TRUE, display_name |-> None, consent_tier |-> "Passive",
   traits |-> EmptyDict, preferences |-> EmptyDict,
   behavioral_patterns |-> EmptyDict, context_summary |-> None,
   profile_version |-> 1]

\* default_data of get_or_create_default
DefaultRow ==
  [ColumnDefaults EXCEPT !.display_name = "User", !.consent_tier = "Suggestive"]

\* the CHECK constraint consent_tier_check
TierCheckHolds(row) == row.consent_tier \in TierNames

\* the values of `data` written over the columns of `row`
WithValues(row, data) ==
  [c \in DOMAIN row |-> IF c \in DOMAIN data THEN data[c] ELSE row[c]]

Outcome(row, out, named) == [row |-> row, out |-> out, named |-> named]

\* BaseRepository.create on user_profiles
create_profile(data) ==
  LET new == WithValues(ColumnDefaults, data)
  IN IF TierCheckHolds(new) THEN Outcome(new, "ok", None)
     ELSE Outcome(AbsentRow, "IntegrityError", None)

\* ProfileRepository.get_or_create_default
get_or_create_default(row) ==
  IF row.exists THEN Outcome(row, "ok", None)
  ELSE Outcome(DefaultRow, "ok", None)

\* mutation: the update leaves profile_version as it is
VersionedUpdate_NoIncrement(row, values) ==
  LET new == WithValues(row, values)
  IN IF TierCheckHolds(new) THEN Outcome(new, "ok", None)
     ELSE Outcome(row, "IntegrityError", None)

\* update(self.model).where(id == existing.id).values(..., profile_version =
\* existing.profile_version + 1), as every writer of ProfileRepository issues it
VersionedUpdate(row, values) ==
  LET new == [WithValues(row, values) EXCEPT !.profile_version = row.profile_version + 1]
  IN IF TierCheckHolds(new) THEN Outcome(new, "ok", None)
     ELSE Outcome(row, "IntegrityError", None)

\* ProfileRepository.upsert
upsert(row, data) ==
  IF row.exists THEN VersionedUpdate(row, data) ELSE create_profile(data)

\* ProfileRepository.update_consent_tier
repo_update_consent_tier(row, consent_tier) ==
  IF consent_tier \notin {"Passive", "Suggestive", "Active", "Autonomous"}
  THEN Outcome(row, "ValueError", consent_tier)
  ELSE IF ~row.exists THEN Outcome(row, "None", None)
  ELSE VersionedUpdate(row, [consent_tier |-> consent_tier])

\* ProfileRepository.update_traits, update_preferences and
\* update_behavioral_patterns: a shallow merge into the column `field`
repo_update_merged(row, field, new_values) ==
  IF ~row.exists THEN Outcome(row, "None", None)
  ELSE VersionedUpdate(row, [f \in {field} |-> Merge(new_values, row[field])])

\* ProfileRepository.update_context_summary
repo_update_context_summary(row, context_summary) ==
  IF ~row.exists THEN Outcome(row, "None", None)
  ELSE VersionedUpdate(row, [context_summary |-> context_summary])

\* mutation: the tier is checked by the repository only, after the profile
\* was fetched or created
svc_update_consent_tier_LateCheck(row, consent_tier) ==
  repo_update_consent_tier(get_or_create_default(row).row, consent_tier)

\* ProfileService.update_consent_tier
svc_update_consent_tier(row, consent_tier) ==
  IF ~InTiers(consent_tier) THEN Outcome(row, "ValueError", consent_tier)
  ELSE LET profile == get_or_create_default(row).row
           updated == repo_update_consent_tier(profile, consent_tier)
       IN IF updated.out = "None" THEN Outcome(profile, "RuntimeError", None)
          ELSE updated

\* the fields ProfileService.update_profile supports
SupportedFields ==
  {"display_name", "consent_tier", "traits", "preferences",
   "behavioral_patterns", "context_summary"}

IsDict(v) == v.kind = "dict"

\* the merge step of update_profile for one field: skipped when the field is
\* not in `updates` or its value is not a dict
MergeStep(row, updates, field) ==
  IF field \in DOMAIN updates /\ IsDict(updates[field])
  THEN repo_update_merged(row, field, updates[field].items).row
  ELSE row

\* mutation: the tier is validated only after the merge fields were written
svc_update_profile_LateCheck(row, updates) ==
  LET r0 == get_or_create_default(row).row
      r1 == MergeStep(r0, updates, "traits")
      r2 == MergeStep(r1, updates, "preferences")
  IN IF "consent_tier" \in DOMAIN updates /\ ~InTiers(updates["consent_tier"])
     THEN Outcome(r2, "ValueError", updates["consent_tier"])
     ELSE Outcome(r2, "ok", None)

\* ProfileService.update_profile
svc_update_profile(row, updates) ==
  IF "consent_tier" \in DOMAIN updates /\ ~InTiers(updates["consent_tier"])
  THEN Outcome(row, "ValueError", updates["consent_tier"])
  ELSE IF DOMAIN updates \ SupportedFields # {}
  THEN Outcome(row, "ValueError", "unsupported fields")
  ELSE LET r0 == get_or_create_default(row).row
           r1 == MergeStep(r0, updates, "traits")
           r2 == MergeStep(r1, updates, "preferences")
           r3 == MergeStep(r2, updates, "behavioral_patterns")
           r4 == IF "context_summary" \in DOMAIN updates
                 THEN repo_update_context_summary(r3, updates["context_summary"]).row
                 ELSE r3
           direct_updates ==
             [f \in DOMAIN updates \cap {"display_name", "consent_tier"} |-> updates[f]]
           r5 == IF DOMAIN direct_updates # {} THEN upsert(r4, direct_updates).row
                 ELSE r4
       IN Outcome(get_or_create_default(r5).row, "ok", None)

\* ChatService._update_profile_from_interaction against ProfileRepository:
\* the profile is fetched or created, then self.profile_repo.update, a method
\* the repository does not define, raises; the error is logged and the
\* method returns False
update_profile_from_interaction(row) ==
  Outcome(get_or_create_default(row).row, "False", None)

-----------------------------------------------------------------------------
(* SpecProfile: a sequence of profile operations on the row of one user *)

\* a JSON value handed to a merge field: a dict, or something else
Dict(d) == [kind |-> "dict", items |-> d]
NotADict == [kind |-> "str", items |-> EmptyDict]

DictInputs == {[k \in {"mood"} |-> v] : v \in {1, 2}} \cup {[k \in {"pace"} |-> 1]}

\* tier arguments of the explicit tier-set calls
TierArgs == TierNames \cup {None, "", "Bogus", "passive"}

\* no tier was part of the call
NoTierArg == "<absent>"

\* the dicts with at most the key `field`, bound to one of `values`
Part(field, values) == {EmptyDict} \cup {[f \in {field} |-> v] : v \in values}

\* `updates` arguments of ProfileService.update_profile
UpdateInputs ==
  {Merge(t, Merge(tr, Merge(pr, Merge(bp, Merge(cs, Merge(dn, nn)))))) :
     t \in Part("consent_tier", {"Active", "Bogus", "passive", None}),
     tr \in Part("traits", {Dict([k \in {"mood"} |-> 2]), NotADict}),
     pr \in Part("preferences", {Dict([k \in {"pace"} |-> 1])}),
     bp \in Part("behavioral_patterns", {Dict([k \in {"mood"} |-> 1])}),
     cs \in Part("context_summary", {"busy week"}),
     dn \in Part("display_name", {"Ann"}),
     nn \in Part("nickname", {"An"})}

\* `data` arguments of ProfileRepository.upsert
UpsertInputs ==
  {Merge(t, Merge(dn, tr)) :
     t \in Part("consent_tier", {"Autonomous", "Bogus"}),
     dn \in Part("display_name", {"Ann"}),
     tr \in Part("traits", DictInputs)}

InitProfile ==
  /\ prof \in {AbsentRow} \cup {[DefaultRow EXCEPT !.consent_tier = t] : t \in TierNames}
  /\ p_op = [op |-> "none", n |-> 0, out |-> "none", named |-> None, tier |-> NoTierArg]
  /\ IdleGate /\ IdleBatch /\ IdleStore /\ IdleChat

\* the operation `op` ended with outcome `o`
ProfileDone(op, tier, o) ==
  /\ p_op.n < MaxProfileOps
  /\ prof' = o.row
  /\ p_op' = [op |-> op, n |-> p_op.n + 1, out |-> o.out, named |-> o.named,
              tier |-> tier]
  /\ UNCHANGED <<g_in, g_out, b_in, b_out, store, lastOp, chat>>

TierOf(data) == IF "consent_tier" \in DOMAIN data THEN data["consent_tier"] ELSE NoTierArg

Upsert ==
  \E data \in UpsertInputs : ProfileDone("repo.upsert", TierOf(data), upsert(prof, data))

RepoUpdateConsentTier ==
  \E t \in TierArgs :
    ProfileDone("repo.update_consent_tier", t, repo_update_consent_tier(prof, t))

RepoUpdateTraits ==
  \E d \in DictInputs :
    ProfileDone("repo.update_traits", NoTierArg, repo_update_merged(prof, "traits", d))

RepoUpdatePreferences ==
  \E d \in DictInputs :
    ProfileDone("repo.update_preferences", NoTierArg,
                repo_update_merged(prof, "preferences", d))

RepoUpdateBehavioralPatterns ==
  \E d \in DictInputs :
    ProfileDone("repo.update_behavioral_patterns", NoTierArg,
                repo_update_merged(prof, "behavioral_patterns", d))

RepoUpdateContextSummary ==
  \E text \in {"busy week", "on holiday"} :
    ProfileDone("repo.update_context_summary", NoTierArg,
                repo_update_context_summary(prof, text))

GetOrCreateDefault ==
  ProfileDone("repo.get_or_create_default", NoTierArg, get_or_create_default(prof))

SvcUpdateConsentTier ==
  \E t \in TierArgs :
    ProfileDone("svc.update_consent_tier", t, svc_update_consent_tier(prof, t))

SvcUpdateProfile ==
  \E updates \in UpdateInputs :
    ProfileDone("svc.update_profile", TierOf(updates), svc_update_profile(prof, updates))

\* the per-turn profile update of process_message
ChatTurnProfileUpdate ==
  ProfileDone("chat turn", NoTierArg, update_profile_from_interaction(prof))

NextProfile ==
  \/ Upsert \/ RepoUpdateConsentTier \/ RepoUpdateTraits \/ RepoUpdatePreferences
  \/ RepoUpdateBehavioralPatterns \/ RepoUpdateContextSummary \/ GetOrCreateDefault
  \/ SvcUpdateConsentTier \/ SvcUpdateProfile \/ ChatTurnProfileUpdate

SpecProfile == InitProfile /\ [][NextProfile]_vars

-----------------------------------------------------------------------------
(* Claims about gate_suggestion, checked under SpecGate *)

\* the levels of the four tiers as the data model states them
TierLevel(t) ==
  CASE t = "Passive" -> 1 [] t = "Suggestive" -> 2
    [] t = "Active" -> 3 [] t = "Autonomous" -> 4

GateReturned == g_out.kind \in {"ok", "KeyError"}

\* C1: every call of gate_suggestion returns a record whose assigned tier and
\* user tier are known tiers and whose is_permitted is exactly
\* level(assigned_tier) <= level(user_consent_tier).
C1_PermittedIffLevel ==
  GateReturned =>
    /\ g_out.kind = "ok"
    /\ g_out.rec.assigned_tier \in TierNames
    /\ g_out.rec.user_consent_tier \in TierNames
    /\ g_out.rec.is_permitted =
         (TierLevel(g_out.rec.assigned_tier) <= TierLevel(g_out.rec.user_consent_tier))

C1_Witness ==
  /\ g_out.kind = "ok"
  /\ g_in.hint = None
  /\ g_out.rec.assigned_tier = "Autonomous"
  /\ g_out.rec.user_consent_tier = "Active"
  /\ ~g_out.rec.is_permitted

\* C5: gate_suggestion never raises on malformed tiers: an unknown assigned
\* tier becomes Suggestive, an unknown user tier becomes Passive, and under an
\* unknown user tier exactly the suggestions assigned Passive are permitted.
C5_SilentCoercion ==
  GateReturned =>
    /\ g_out.kind = "ok"
    /\ (Truthy(g_in.hint) /\ g_in.hint \notin TierNames
          => g_out.rec.assigned_tier = "Suggestive")
    /\ (g_in.user \notin TierNames
          => /\ g_out.rec.user_consent_tier = "Passive"
             /\ g_out.rec.is_permitted = (g_out.rec.assigned_tier = "Passive"))

C5_Witness ==
  /\ g_out.kind = "ok"
  /\ g_in.user = "Bogus"
  /\ g_in.hint = "Bogus"
  /\ g_out.rec.assigned_tier = "Suggestive"
  /\ ~g_out.rec.is_permitted

\* the assigned tiers the two entry points produced for the input at hand
AssignedTiersSeen ==
  (IF g_out.kind = "ok" THEN {g_out.rec.assigned_tier} ELSE {})
    \cup (IF b_out.kind = "ok"
          THEN {b_out.list[i].assigned_tier : i \in 1..Len(b_out.list)}
          ELSE {})

\* C6 as stated: a valid hint is the assigned tier; with any other hint (absent
\* or not a tier name) the assigned tier is the classification of the text.
C6_HintElseClassification ==
  \A a \in AssignedTiersSeen :
    IF g_in.hint \in TierNames THEN a = g_in.hint
    ELSE a = classify_suggestion_tier(g_in.text)

\* C6 amended: a valid hint is the assigned tier; an absent or empty hint gives
\* the classification of the text; a non-empty hint that is not a tier name
\* gives Suggestive whatever the text.
C6_HintClassificationOrSuggestive ==
  \A a \in AssignedTiersSeen :
    CASE g_in.hint \in TierNames -> a = g_in.hint
      [] ~Truthy(g_in.hint) -> a = classify_suggestion_tier(g_in.text)
      [] OTHER -> a = "Suggestive"

C6_Witness ==
  /\ g_out.kind = "ok" /\ b_out.kind = "ok" /\ Len(b_out.list) = 1
  /\ g_in.hint = "Bogus"
  /\ classify_suggestion_tier(g_in.text) = "Autonomous"
  /\ g_out.rec.assigned_tier = "Suggestive"
  /\ b_out.list[1].assigned_tier = "Suggestive"

\* the tiers one of whose keywords occurs in the lower-cased text
MatchingTiers(text) ==
  {t \in TierNames :
     \E i \in 1..Len(TIER_CLASSIFICATION_PATTERNS[t]) :
       Contains(TIER_CLASSIFICATION_PATTERNS[t][i], Lower(text))}

\* C7: a text that is not empty after trimming classifies as the most
\* intrusive tier one of whose keywords occurs in the lower-cased text, and as
\* Suggestive when no keyword of any tier occurs.
C7_MostIntrusiveWins ==
  (g_out.kind = "ok" /\ Strip(g_in.text) # <<>>) =>
    LET M == MatchingTiers(g_in.text)
    IN IF M = {} THEN g_out.classified = "Suggestive"
       ELSE /\ g_out.classified \in M
            /\ \A t \in M : TierLevel(t) <= TierLevel(g_out.classified)

C7_Witness ==
  /\ g_out.kind = "ok"
  /\ {"Autonomous", "Passive"} \subseteq MatchingTiers(g_in.text)
  /\ g_out.classified = "Autonomous"

IsBlankText(text) == \A i \in 1..Len(text) : text[i] \in Whitespace

\* C8 as stated: an empty or whitespace-only text classifies as Passive and,
\* gated, is permitted under every user tier.
C8_BlankAlwaysPermitted ==
  (g_out.kind = "ok" /\ IsBlankText(g_in.text)) =>
    /\ g_out.classified = "Passive"
    /\ g_out.rec.is_permitted

\* C8 amended: an empty or whitespace-only text classifies as Passive and,
\* gated without a tier hint (hint absent or empty), is assigned Passive and
\* permitted under every user tier.
C8_BlankPermittedWithoutHint ==
  (g_out.kind = "ok" /\ IsBlankText(g_in.text)) =>
    /\ g_out.classified = "Passive"
    /\ (~Truthy(g_in.hint) =>
          g_out.rec.assigned_tier = "Passive" /\ g_out.rec.is_permitted)

C8_Witness ==
  /\ g_out.kind = "ok"
  /\ Len(g_in.text) > 0 /\ IsBlankText(g_in.text)
  /\ g_in.hint = None
  /\ g_in.user = "Bogus"
  /\ g_out.rec.is_permitted

-----------------------------------------------------------------------------
(* Claims about gate_suggestions, checked under SpecBatch *)

OwnFields == {"suggestion_text", "assigned_tier", "ethical_reasoning",
              "is_permitted", "filter_reasoning", "user_consent_tier"}

HasText(e) == "suggestion_text" \in DOMAIN e /\ e["suggestion_text"] # <<>>

\* the positions of the input entries that carry a non-empty text, in input order
TextPositions(l) == SelectSeq([i \in 1..Len(l) |-> i], LAMBDA i : HasText(l[i]))

\* C9: gate_suggestions returns one record per input entry with a non-empty
\* text, in input order, whose gate fields are those gate_suggestion yields
\* for that entry alone; the other entries are dropped.
C9_BatchIsMapOfGate ==
  b_out # NoResult =>
    /\ b_out.kind = "ok"
    /\ Len(b_out.list) <= Len(b_in.suggestions)
    /\ LET pos == TextPositions(b_in.suggestions)
       IN /\ Len(b_out.list) = Len(pos)
          /\ \A n \in 1..Len(pos) :
               LET e == b_in.suggestions[pos[n]]
                   g == gate_suggestion(e["suggestion_text"], b_in.user,
                                        IF "consent_tier" \in DOMAIN e
                                        THEN e["consent_tier"] ELSE None)
               IN \A f \in OwnFields : b_out.list[n][f] = g[f]

C9_Witness ==
  /\ b_out.kind = "ok"
  /\ Len(b_in.suggestions) = 3 /\ Len(b_out.list) = 2
  /\ ~HasText(b_in.suggestions[2])
  /\ b_out.list[1].suggestion_text = T_sent
  /\ b_out.list[2].suggestion_text = T_blank
  /\ b_out.list[1].assigned_tier # b_out.list[2].assigned_tier

\* C10: on every kept entry, each input key that is not a field of the gated
\* record is on the output entry with its value unchanged.
C10_ExtrasCopied ==
  b_out.kind = "ok" =>
    LET pos == TextPositions(b_in.suggestions)
    IN \A n \in 1..Len(pos) :
         n <= Len(b_out.list) =>
           \A k \in DOMAIN b_in.suggestions[pos[n]] \ OwnFields :
             /\ k \in DOMAIN b_out.list[n]
             /\ b_out.list[n][k] = b_in.suggestions[pos[n]][k]

C10_Witness ==
  /\ b_out.kind = "ok"
  /\ Len(b_out.list) >= 1
  /\ {"ai_reasoning", "note", "consent_tier"} \subseteq DOMAIN b_out.list[1]
  /\ b_out.list[1]["ai_reasoning"] = "because"
  /\ b_out.list[1]["note"] = 7

-----------------------------------------------------------------------------
(* Claims about the suggestion lifecycle, checked under SpecStore *)

\* C3: a status only ever moves from pending to approved, denied or expired;
\* a row that is not pending never changes its status again.
C3_OneWayLifecycle ==
  [][\A id \in 1..Len(store) :
       store'[id].status # store[id].status =>
         /\ store[id].status = "pending"
         /\ store'[id].status \in {"approved", "denied", "expired"}]_vars

TransitionOps == {"approve", "deny", "expire", "repo.approve", "repo.deny"}

\* C4: approve, deny or expire attempted on a row that is not pending, through
\* the model or through the repository, fails with an error naming the current
\* status and leaves the row as it was.
C4_StateConflictSignalled ==
  (/\ lastOp.op \in TransitionOps
   /\ lastOp.id \in 1..Len(lastOp.before)
   /\ lastOp.before[lastOp.id].status # "pending")
  => /\ lastOp.outcome = "ValueError"
     /\ lastOp.named = lastOp.before[lastOp.id].status
     /\ store = lastOp.before

-----------------------------------------------------------------------------
(* Claims about get_tier_level, checked under SpecGate *)

\* C11: get_tier_level returns 1, 2, 3, 4 for Passive, Suggestive, Active,
\* Autonomous, so the four levels are strictly increasing in that order, and
\* 0 for every other name (a name in another case, the empty string, None).
C11_TierLevels ==
  g_out.kind = "level" =>
    /\ g_out.tier = "Passive" => g_out.level = 1
    /\ g_out.tier = "Suggestive" => g_out.level = 2
    /\ g_out.tier = "Active" => g_out.level = 3
    /\ g_out.tier = "Autonomous" => g_out.level = 4
    /\ g_out.tier \notin {"Passive", "Suggestive", "Active", "Autonomous"}
         => g_out.level = 0

C11_Witness ==
  /\ g_out.kind = "level"
  /\ g_out.tier = "passive"
  /\ g_out.level = 0

-----------------------------------------------------------------------------
(* Claims about the chat flow, checked under SpecChat *)

\* the turn failed in the primary LLM call
PrimaryCallFailed ==
  chat.pc = "failed" /\ chat.result.error \in {"transient", "non-transient"}

GateOfTurn ==
  gate_suggestions(
    [i \in 1..Len(chat.raw_suggestions) |->
       [suggestion_text |-> chat.raw_suggestions[i].action,
        consent_tier |-> chat.raw_suggestions[i].consent_tier]],
    chat.consent_tier)

PermittedOfTurn ==
  {<<GateOfTurn[i].suggestion_text, GateOfTurn[i].assigned_tier>> :
     i \in {j \in 1..Len(GateOfTurn) :
              /\ GateOfTurn[j].is_permitted
              /\ TierLevel(GateOfTurn[j].assigned_tier)
                   <= TierLevel(ResolveUserTier(chat.consent_tier))}}

AssistantMessages(messages) ==
  {i \in 1..Len(messages) : messages[i].role = "assistant"}

\* C13: when the turn fails the caller gets the exception, and neither an
\* assistant message nor a suggestion row of the turn is stored, in the
\* session or in the database.
C13_FailureLeavesNoAssistantRecord ==
  chat.pc = "failed" =>
    /\ chat.result.kind = "raised"
    /\ AssistantMessages(chat.committed.messages) = {}
    /\ AssistantMessages(chat.messages) = {}
    /\ chat.committed.rows = <<>>
    /\ chat.rows = <<>>

\* the turn wrote both messages and a suggestion row, then failed at commit
C13_Witness ==
  /\ chat.pc = "failed"
  /\ chat.result.error = "commit"
  /\ chat.persisted # <<>>
  /\ chat.rows = <<>>

\* the fallback extraction call was issued
FallbackIssued == chat.fallback \in {"returned", "raised"}

Roles(messages) == [i \in 1..Len(messages) |-> messages[i].role]

UserMessageIn(messages) == \E i \in 1..Len(messages) : messages[i].role = "user"

-----------------------------------------------------------------------------
(* Claims about the profile, checked under SpecProfile *)

\* C16: profile_version never decreases, every operation that changes the
\* stored profile increments it, and the profile update of a chat turn
\* increments it.
C16_VersionIncrementedByEveryWrite ==
  [][ (prof.exists /\ prof'.exists) =>
        /\ prof'.profile_version >= prof.profile_version
        /\ prof' # prof => prof'.profile_version > prof.profile_version
        /\ p_op'.op = "chat turn" =>
             prof'.profile_version = prof.profile_version + 1
    ]_vars

\* the explicit tier-set calls
TierSetOps ==
  {"svc.update_consent_tier", "svc.update_profile", "repo.update_consent_tier"}

\* C17: a tier-set call carrying a tier that is not one of the four names
\* ends with a validation error naming that value and leaves the stored
\* profile as it was: no field changed, no version increment, no row created.
C17_InvalidTierRejected ==
  [][ (/\ p_op'.n = p_op.n + 1
       /\ p_op'.op \in TierSetOps
       /\ p_op'.tier # NoTierArg
       /\ p_op'.tier \notin {"Passive", "Suggestive", "Active", "Autonomous"}) =>
        /\ p_op'.out = "ValueError"
        /\ p_op'.named = p_op'.tier
        /\ prof' = prof
    ]_vars

\* update_profile with an unknown tier was rejected on a profile that an
\* earlier call had changed
C17_Witness ==
  /\ p_op.op = "svc.update_profile"
  /\ p_op.tier = "Bogus"
  /\ p_op.out = "ValueError"
  /\ p_op.named = "Bogus"
  /\ prof.exists
  /\ prof.profile_version = 2

\* the length of the interaction log of the stored profile
InteractionLogLen(row) ==
  IF row.exists /\ "interactions" \in DOMAIN row.behavioral_patterns
  THEN Len(row.behavioral_patterns["interactions"])
  ELSE 0

\* C21: the profile update of a chat turn reports True and leaves the stored
\* interaction log one entry longer, capped at the 100 most recent entries.
C21_TurnExtendsInteractionLog ==
  [][ (p_op'.n = p_op.n + 1 /\ p_op'.op = "chat turn") =>
        /\ p_op'.out = "True"
        /\ InteractionLogLen(prof') =
             (IF InteractionLogLen(prof) + 1 > 100 THEN 100
              ELSE InteractionLogLen(prof) + 1)
    ]_vars

-----------------------------------------------------------------------------
(* Further claims about the suggestion lifecycle, checked under SpecStore *)

\* the status a lifecycle operation moves a pending suggestion to
TargetStatus(op) ==
  CASE op \in {"approve", "repo.approve"} -> "approved"
    [] op \in {"deny", "repo.deny"} -> "denied"
    [] op = "expire" -> "expired"

\* C22: approve, deny and expire on a pending suggestion succeed, through the
\* model methods and through the repository's approve and deny: the row ends
\* in the target status, and for approve and deny the response timestamp is
\* the time of the call and the response text is the one given (or none).
C22_PendingTransitionSucceeds ==
  (/\ lastOp.op \in {"approve", "deny", "expire", "repo.approve", "repo.deny"}
   /\ RowFound(lastOp.before, lastOp.id)
   /\ lastOp.before[lastOp.id].status = "pending") =>
    /\ lastOp.outcome \in {"ok", "returned row"}
    /\ store[lastOp.id].status = TargetStatus(lastOp.op)
    /\ lastOp.op # "expire" =>
         /\ store[lastOp.id].responded_at = lastOp.clock
         /\ store[lastOp.id].user_response \in Feedbacks

-----------------------------------------------------------------------------
(* The keyword named by the ethical reasoning, checked under SpecGate *)

\* a keyword of the tier's list occurs in the lower-cased, stripped text
KeywordOfTierOccurs(tier, text) ==
  \E i \in 1..Len(TIER_CLASSIFICATION_PATTERNS[tier]) :
     Contains(TIER_CLASSIFICATION_PATTERNS[tier][i], Strip(Lower(text)))

\* C23 as stated: the reasoning names a trigger keyword only when the tier was
\* produced by keyword classification and a keyword of that tier occurs in
\* the text; with a caller-supplied hint, or with no keyword of the tier in
\* the text, it ends with the generic default-heuristic sentence.
C23_TriggerOnlyFromClassification ==
  g_out.kind = "ok" =>
    LET r == g_out.rec.ethical_reasoning
    IN /\ r.sentence = "classification trigger" =>
            /\ ~Truthy(g_in.hint)
            /\ KeywordOfTierOccurs(g_out.rec.assigned_tier, g_in.text)
       /\ (Truthy(g_in.hint)
           \/ ~KeywordOfTierOccurs(g_out.rec.assigned_tier, g_in.text)) =>
            r.sentence = NoTrigger

\* C23 amended: the reasoning names a trigger keyword exactly when a keyword
\* of the assigned tier's list occurs in the text, whether the tier came from
\* keyword classification or from a caller-supplied hint; it then names the
\* first such keyword of that list. Otherwise it ends with the generic
\* default-heuristic sentence. It always opens with the template of the
\* assigned tier, so it is never empty.
C23_TriggerIffKeywordOfAssignedTier ==
  g_out.kind = "ok" =>
    LET r == g_out.rec.ethical_reasoning
        tier == g_out.rec.assigned_tier
        kws == TIER_CLASSIFICATION_PATTERNS[tier]
        text_lower == Strip(Lower(g_in.text))
    IN /\ r.template = tier
       /\ r.template \in TierNames
       /\ IF KeywordOfTierOccurs(tier, g_in.text)
          THEN /\ r.sentence = "classification trigger"
               /\ \E i \in 1..Len(kws) :
                    /\ r.trigger = kws[i]
                    /\ Contains(kws[i], text_lower)
                    /\ \A j \in 1..(i - 1) : ~Contains(kws[j], text_lower)
          ELSE r.sentence = NoTrigger

\* a hinted tier whose keyword occurs in an upper-case text is named
C23_Witness ==
  /\ g_out.kind = "ok"
  /\ g_in.hint = "Active"
  /\ g_in.text = <<"I"," ","C","A","N">>
  /\ g_out.rec.ethical_reasoning.sentence = "classification trigger"

-----------------------------------------------------------------------------
(* The level comparison on names that were not normalized, under SpecGate *)

\* C24 as stated: is_tier_permitted never answers permitted when either
\* argument is an unknown tier name.
C24_UnknownNeverPermitted ==
  (/\ g_out.kind = "permitted"
   /\ (g_out.suggestion_tier \notin TierNames \/ g_out.user \notin TierNames)) =>
    ~g_out.permitted

\* C24 amended: an unknown tier name has level 0, so is_tier_permitted always
\* answers permitted when the suggestion tier is an unknown name, whatever
\* the user's tier, and never answers permitted when the suggestion tier is a
\* known name and the user's tier is an unknown name.
C24_UnknownComparesAsLevelZero ==
  g_out.kind = "permitted" =>
    /\ g_out.suggestion_tier \notin TierNames => g_out.permitted
    /\ (g_out.suggestion_tier \in TierNames /\ g_out.user \notin TierNames) =>
         ~g_out.permitted

\* an unknown suggestion tier compared with the lowest known user tier
C24_Witness ==
  /\ g_out.kind = "permitted"
  /\ g_out.suggestion_tier = "Bogus"
  /\ g_out.user = "Passive"
  /\ g_out.permitted

-----------------------------------------------------------------------------
(* SpecProfileTx: two sessions, each in its own transaction, run one
   ProfileRepository call on the row of the same user. A call is a SELECT
   (get_by_user_id), then at most one UPDATE or INSERT built from the row
   that was read, then the commit of the session. The database lets one
   transaction write at a time; a reader sees committed rows only. *)

TxIds == {1, 2}

TxEdits ==
  {"upsert", "update_consent_tier", "update_traits", "update_preferences",
   "update_behavioral_patterns", "update_context_summary"}

TxOps == TxEdits \cup {"get_or_create_default"}

\* the statement a call issues after its SELECT returned `seen`
Stmt(kind, o, cols) ==
  [kind |-> IF o.out = "ok" THEN kind ELSE "none", row |-> o.row, cols |-> cols]

\* the statements `op` can issue, one for each argument it is given here
Statements(op, seen) ==
  CASE op = "upsert" ->
         {IF seen.exists
          THEN Stmt("update", upsert(seen, d), DOMAIN d \cup {"profile_version"})
          ELSE Stmt("insert", upsert(seen, d), {})
            : d \in {[display_name |-> "Ann"], [consent_tier |-> "Autonomous"]}}
    [] op = "update_consent_tier" ->
         {Stmt("update", repo_update_consent_tier(seen, t),
               {"consent_tier", "profile_version"}) : t \in {"Passive", "Active"}}
    [] op \in {"update_traits", "update_preferences", "update_behavioral_patterns"} ->
         LET field == CASE op = "update_traits" -> "traits"
                        [] op = "update_preferences" -> "preferences"
                        [] OTHER -> "behavioral_patterns"
         IN {Stmt("update", repo_update_merged(seen, field, d),
                  {field, "profile_version"}) : d \in DictInputs}
    [] op = "update_context_summary" ->
         {Stmt("update", repo_update_context_summary(seen, "busy week"),
               {"context_summary", "profile_version"})}
    [] op = "get_or_create_default" ->
         {IF seen.exists THEN Stmt("none", get_or_create_default(seen), {})
          ELSE Stmt("insert", get_or_create_default(seen), {})}

IdleTx == [pc |-> "start", op |-> "none", seen |-> AbsentRow, pending |-> AbsentRow,
           out |-> "none", version |-> 0]

InitProfileTx ==
  /\ prof \in {AbsentRow, DefaultRow, [DefaultRow EXCEPT !.profile_version = 2]}
  /\ p_op = [op |-> "tx", n |-> 0, lock |-> 0,
             v0 |-> IF prof.exists THEN prof.profile_version ELSE 0,
             tx |-> [t \in TxIds |-> IdleTx]]
  /\ IdleGate /\ IdleBatch /\ IdleStore /\ IdleChat

TxSet(t, rec) == p_op' = [p_op EXCEPT !.tx[t] = rec]

\* get_by_user_id: the call reads the committed row
TxRead(t) ==
  /\ p_op.tx[t].pc = "start"
  /\ \E op \in TxOps :
       TxSet(t, [p_op.tx[t] EXCEPT !.pc = "read", !.op = op, !.seen = prof])
  /\ UNCHANGED <<g_in, g_out, b_in, b_out, store, lastOp, chat, prof>>

\* the call has nothing to write: the row was not found by an update_*, or
\* was found by get_or_create_default
TxNoWrite(t) ==
  /\ p_op.tx[t].pc = "read"
  /\ \E s \in Statements(p_op.tx[t].op, p_op.tx[t].seen) :
       /\ s.kind = "none"
       /\ TxSet(t, [p_op.tx[t] EXCEPT !.pc = "written", !.pending = prof,
                                      !.out = "ok"])
  /\ UNCHANGED <<g_in, g_out, b_in, b_out, store, lastOp, chat, prof>>

\* the UPDATE ... WHERE id = existing.id or the INSERT of the call, flushed
\* inside the transaction: the UPDATE sets its columns to the values computed
\* from the row that was read; the INSERT of a second row for the user
\* violates uq_user_profiles_user_id
TxWrite(t) ==
  /\ p_op.tx[t].pc = "read"
  /\ p_op.lock = 0
  /\ \E s \in Statements(p_op.tx[t].op, p_op.tx[t].seen) :
       \/ /\ s.kind = "update"
          /\ p_op' = [p_op EXCEPT
               !.lock = t,
               !.tx[t] = [p_op.tx[t] EXCEPT
                 !.pc = "written",
                 !.pending = [c \in DOMAIN prof |->
                                IF c \in s.cols THEN s.row[c] ELSE prof[c]],
                 !.out = "ok",
                 !.version = s.row.profile_version]]
       \/ /\ s.kind = "insert"
          /\ ~prof.exists
          /\ p_op' = [p_op EXCEPT
               !.lock = t,
               !.tx[t] = [p_op.tx[t] EXCEPT
                 !.pc = "written", !.pending = s.row, !.out = "ok",
                 !.version = s.row.profile_version]]
       \/ /\ s.kind = "insert"
          /\ prof.exists
          /\ TxSet(t, [p_op.tx[t] EXCEPT !.pc = "failed", !.out = "IntegrityError"])
  /\ UNCHANGED <<g_in, g_out, b_in, b_out, store, lastOp, chat, prof>>

\* the other transaction holds the write lock for longer than the driver
\* waits: the statement fails and the session is rolled back
TxLocked(t) ==
  /\ p_op.tx[t].pc = "read"
  /\ p_op.lock \notin {0, t}
  /\ \E s \in Statements(p_op.tx[t].op, p_op.tx[t].seen) : s.kind # "none"
  /\ TxSet(t, [p_op.tx[t] EXCEPT !.pc = "failed", !.out = "OperationalError"])
  /\ UNCHANGED <<g_in, g_out, b_in, b_out, store, lastOp, chat, prof>>

\* session.commit() after the request
TxCommit(t) ==
  /\ p_op.tx[t].pc = "written"
  /\ prof' = p_op.tx[t].pending
  /\ p_op' = [p_op EXCEPT !.lock = IF p_op.lock = t THEN 0 ELSE p_op.lock,
                          !.tx[t] = [p_op.tx[t] EXCEPT !.pc = "committed"]]
  /\ UNCHANGED <<g_in, g_out, b_in, b_out, store, lastOp, chat>>

NextProfileTx ==
  \/ \E t \in TxIds : TxRead(t)
  \/ \E t \in TxIds : TxNoWrite(t)
  \/ \E t \in TxIds : TxWrite(t)
  \/ \E t \in TxIds : TxLocked(t)
  \/ \E t \in TxIds : TxCommit(t)

SpecProfileTx == InitProfileTx /\ [][NextProfileTx]_vars

\* C25: when two profile edits run concurrently in separate transactions,
\* each reading the profile and then writing version + 1, then after both
\* committed profile_version has increased by exactly two and the two edits
\* carry distinct versions.
C25_NoLostIncrement ==
  (/\ \A t \in TxIds : /\ p_op.tx[t].pc = "committed"
                       /\ p_op.tx[t].op \in TxEdits
                       /\ p_op.tx[t].seen.exists) =>
    /\ prof.profile_version = p_op.v0 + 2
    /\ p_op.tx[1].version # p_op.tx[2].version


\* C26: when two chat turns for a user with no profile resolve the profile by
\* get-or-create concurrently, neither turn fails and exactly one profile
\* row, with the default fields, exists afterwards.
C26_ConcurrentGetOrCreateSucceeds ==
  (/\ p_op.v0 = 0
   /\ \A t \in TxIds : /\ p_op.tx[t].op = "get_or_create_default"
                       /\ p_op.tx[t].pc \in {"committed", "failed"}) =>
    /\ \A t \in TxIds : p_op.tx[t].pc = "committed"
    /\ prof = DefaultRow

-----------------------------------------------------------------------------
(* What the LLM's tier can do to the gate, checked under SpecChat *)

-----------------------------------------------------------------------------
(* SpecChatEdit: a chat turn and, in another session, one edit of the user's
   consent tier that commits while the turn is in flight. `prof` is the
   committed user_profiles row; chat.profile is the object the turn loaded
   in step 1. *)

InitChatEdit ==
  /\ \E p \in InitialProfiles \ {NoProfile} :
       /\ chat = NewTurn(p)
       /\ prof = [DefaultRow EXCEPT !.consent_tier = p.consent_tier]
  /\ p_op = [op |-> "none", n |-> 0, out |-> "none", named |-> None, tier |-> NoTierArg]
  /\ IdleGate /\ IdleBatch /\ IdleStore

\* ProfileRepository.update_consent_tier in another session, committed after
\* the turn read the profile and before the turn's first write
TierEditCommits ==
  /\ chat.pc \in {"history", "llm", "fallback", "save user"}
  /\ p_op.n = 0
  /\ \E t \in TierNames :
       LET o == repo_update_consent_tier(prof, t)
       IN /\ prof' = o.row
          /\ p_op' = [op |-> "repo.update_consent_tier", n |-> 1, out |-> o.out,
                      named |-> o.named, tier |-> t]
  /\ UNCHANGED <<g_in, g_out, b_in, b_out, store, lastOp, chat>>

NextChatEdit == NextChat \/ TierEditCommits

SpecChatEdit == InitChatEdit /\ [][NextChatEdit]_vars

-----------------------------------------------------------------------------
(* Caller keys named like the gate's own fields, checked under SpecBatch *)

\* C29: a caller-supplied key that collides with one of the six fields of the
\* gated record never overrides the value the gate computed: on every output
\* entry those six fields are exactly the result of gate_suggestion on the
\* entry's text, the user's tier and the entry's tier hint.
C29_OwnFieldsAreTheGatesResult ==
  b_out.kind = "ok" =>
    LET pos == TextPositions(b_in.suggestions)
    IN /\ Len(b_out.list) = Len(pos)
       /\ \A n \in 1..Len(pos) :
            LET entry == b_in.suggestions[pos[n]]
                computed == gate_suggestion(entry["suggestion_text"], b_in.user,
                                            Get(entry, "consent_tier", None))
            IN \A k \in {"is_permitted", "assigned_tier", "ethical_reasoning",
                         "filter_reasoning", "user_consent_tier", "suggestion_text"} :
                 /\ k \in DOMAIN b_out.list[n]
                 /\ b_out.list[n][k] = computed[k]

\* an entry that claims to be permitted at Passive while the gate blocks it
C29_Witness ==
  /\ b_out.kind = "ok"
  /\ \E n \in 1..Len(b_out.list) :
       LET pos == TextPositions(b_in.suggestions)
       IN /\ "is_permitted" \in DOMAIN b_in.suggestions[pos[n]]
          /\ b_in.suggestions[pos[n]]["is_permitted"] = TRUE
          /\ b_in.suggestions[pos[n]]["assigned_tier"] = "Passive"
          /\ b_out.list[n]["is_permitted"] = FALSE
          /\ b_out.list[n]["assigned_tier"] = "Autonomous"

-----------------------------------------------------------------------------
(* SpecKeywords: every keyword of TIER_CLASSIFICATION_PATTERNS, as a whole
   text, through gate_suggestion without a tier hint *)

KeywordsOf(tier) ==
  {TIER_CLASSIFICATION_PATTERNS[tier][i] :
     i \in 1..Len(TIER_CLASSIFICATION_PATTERNS[tier])}

AllKeywords == UNION {KeywordsOf(tier) : tier \in TierNames}

InitKeywords ==
  /\ g_in \in [text : AllKeywords, user : TierNames, hint : {None}]
  /\ g_out = NoResult
  /\ IdleBatch /\ IdleStore /\ IdleChat /\ IdleProfile

NextKeywords == GateOne

SpecKeywords == InitKeywords /\ [][NextKeywords]_vars

\* C30: for every tier T and every keyword k of T's list, the text k is
\* classified as T.
C30_EveryKeywordEffective ==
  g_out.kind = "ok" =>
    \A tier \in TierNames :
      g_in.text \in KeywordsOf(tier) => g_out.classified = tier

====
